---- MODULE Spec2Model ----
(***************************************************************************)
(* Model of src/App.tsx: the hand-rolled navigation stack (useSimpleStack), *)
(* the shared menu store (App.menuItems with addItem / removeItem), the     *)
(* chef form (ChefScreen.onAdd, confirmRemove), the payment form            *)
(* (PaymentScreen.onConfirmPayment) and the buttons of the five screens.    *)
(*                                                                          *)
(* Text is modelled as a sequence of one-character strings, so that trim()  *)
(* and parseFloat() are computed character by character.  Numbers parsed    *)
(* from text are records [kind, neg, num, scale] standing for               *)
(* (-1)^neg * num / 10^scale, or NaN, or an infinity.  Prices stored in an  *)
(* item are records [kind, neg, cents].                                     *)
(***************************************************************************)
EXTENDS Integers, Sequences, FiniteSets

VARIABLES
    stack,          \* useSimpleStack: Route[]
    menuItems,      \* App: MenuItem[]
    name,           \* ChefScreen: dish name text
    course,         \* ChefScreen: selected course
    addOn,          \* ChefScreen: selected add-on
    price,          \* ChefScreen: price text
    bankName,       \* PaymentScreen: bank name text
    accountNumber,  \* PaymentScreen: account number text
    filter,         \* HomeScreen / GuestFilterScreen: active course filter
    alert,          \* the Alert.alert dialog on display, if any
    now,            \* the value Date.now() returns
    log,            \* history: the seed items and every item a direct call of
                    \* addItem has passed, oldest first
    last            \* history: the operation that produced this state

vars ==
    <<stack, menuItems, name, course, addOn, price, bankName, accountNumber,
      filter, alert, now, log, last>>

----------------------------------------------------------------------------
(* Bounds of the model *)

MaxDepth ==
    3

MaxAdds ==
    2

MaxItems ==
    3

Now0 ==
    9

MaxNow ==
    10

----------------------------------------------------------------------------
(* Data *)

COURSES ==
    <<"Starter", "Main", "Dessert", "Beverage">>

ADDONS ==
    <<"Extra Sauce", "Salad", "Fries", "None">>

ScreenNames ==
    {"Home", "Chef", "GuestFilter", "SelectedCourse", "Payment", "Unknown"}

Range(s) ==
    {s[i] : i \in 1..Len(s)}

Money(c) ==
    [kind |-> "Fin", neg |-> FALSE, cents |-> c]

Seed1 ==
    [id |-> <<"1">>,
     name |-> <<"T","o","m","a","t","o"," ","S","o","u","p">>,
     course |-> "Starter", addOn |-> "", price |-> Money(4500)]

Seed2 ==
    [id |-> <<"2">>,
     name |-> <<"G","r","i","l","l","e","d"," ","S","t","e","a","k">>,
     course |-> "Main", addOn |-> "Fries", price |-> Money(22000)]

SeedItems ==
    <<Seed1, Seed2>>

\* The root route: { name: 'Home', params: {} }.  params is <<>> for {} and
\* <<item>> for { item }.
InitialRoute ==
    [name |-> "Home", params |-> <<>>]

----------------------------------------------------------------------------
(* Text: trim(), parseFloat(), toFixed(2), toString() *)

Digits ==
    <<"0", "1", "2", "3", "4", "5", "6", "7", "8", "9">>

IsSpace(c) ==
    c = " "

IsDigit(c) ==
    c \in Range(Digits)

DigitValue(c) ==
    (CHOOSE i \in 1..10 : Digits[i] = c) - 1

RECURSIVE TrimStart(_)
TrimStart(s) ==
    IF s # <<>> /\ IsSpace(Head(s)) THEN TrimStart(Tail(s)) ELSE s

RECURSIVE TrimEnd(_)
TrimEnd(s) ==
    IF s # <<>> /\ IsSpace(s[Len(s)]) THEN TrimEnd(SubSeq(s, 1, Len(s) - 1)) ELSE s

Trim(s) ==
    TrimEnd(TrimStart(s))

\* The longest prefix of s made of digits.
RECURSIVE DigitPrefix(_)
DigitPrefix(s) ==
    IF s # <<>> /\ IsDigit(Head(s)) THEN <<Head(s)>> \o DigitPrefix(Tail(s)) ELSE <<>>

RECURSIVE DigitsToNat(_)
DigitsToNat(s) ==
    IF s = <<>> THEN 0 ELSE 10 * DigitsToNat(SubSeq(s, 1, Len(s) - 1)) + DigitValue(s[Len(s)])

RECURSIVE Pow10(_)
Pow10(n) ==
    IF n = 0 THEN 1 ELSE 10 * Pow10(n - 1)

Drop(s, n) ==
    SubSeq(s, n + 1, Len(s))

StartsWith(s, p) ==
    Len(s) >= Len(p) /\ SubSeq(s, 1, Len(p)) = p

NaN ==
    [kind |-> "NaN", neg |-> FALSE, num |-> 0, scale |-> 0]

\* parseFloat without its sign: "Infinity", or digits [ "." digits ], read
\* as far as they go; anything after them is ignored.  (An exponent part is
\* not modelled: no input of the model holds an "e".)
ParseUnsigned(s, neg) ==
    IF StartsWith(s, <<"I","n","f","i","n","i","t","y">>)
    THEN [kind |-> "Inf", neg |-> neg, num |-> 0, scale |-> 0]
    ELSE LET ip   == DigitPrefix(s)
             rest == Drop(s, Len(ip))
             fp   == IF rest # <<>> /\ Head(rest) = "." THEN DigitPrefix(Tail(rest)) ELSE <<>>
         IN  IF ip = <<>> /\ fp = <<>>
             THEN NaN
             ELSE [kind |-> "Fin", neg |-> neg,
                   num |-> DigitsToNat(ip \o fp), scale |-> Len(fp)]

parseFloat(s) ==
    LET t == TrimStart(s)
    IN  IF t = <<>> THEN NaN
        ELSE IF Head(t) = "-" THEN ParseUnsigned(Tail(t), TRUE)
        ELSE IF Head(t) = "+" THEN ParseUnsigned(Tail(t), FALSE)
        ELSE ParseUnsigned(t, FALSE)

IsNaN(v) ==
    v.kind = "NaN"

\* v < 0 in JavaScript: false for NaN and for -0.
LessThanZero(v) ==
    \/ v.kind = "Inf" /\ v.neg
    \/ v.kind = "Fin" /\ v.neg /\ v.num > 0

\* parseFloat(v.toFixed(2)): the value rounded to two decimals, in cents.
\* Infinity.toFixed(2) is "Infinity", which parses back to Infinity.  (A
\* decimal tie is rounded up; the binary value of a tie may round either
\* way, and no input of the model is a tie.)
ToFixed2(v) ==
    IF v.kind = "Fin"
    THEN [kind |-> "Fin", neg |-> v.neg,
          cents |-> (v.num * 100 + (Pow10(v.scale) \div 2)) \div Pow10(v.scale)]
    ELSE [kind |-> v.kind, neg |-> v.neg, cents |-> 0]

\* Number.prototype.toString for a non-negative integer.
RECURSIVE ToString(_)
ToString(n) ==
    IF n < 10 THEN <<Digits[n + 1]>> ELSE ToString(n \div 10) \o <<Digits[(n % 10) + 1]>>

----------------------------------------------------------------------------
(* useSimpleStack: the three updaters handed to setStack, and current *)

\* Variant: a screen already on top is not pushed again.
navigateOnce(prev, screenName, params) ==
    IF prev[Len(prev)].name = screenName
    THEN prev
    ELSE prev \o <<[name |-> screenName, params |-> params]>>

navigate(prev, screenName, params) ==
    prev \o <<[name |-> screenName, params |-> params]>>

\* Variant: the last frame is dropped without the length test.
goBackUnguarded(prev) ==
    SubSeq(prev, 1, Len(prev) - 1)

\* Variant: going back drops every frame above the root.
goBackToRoot(prev) ==
    IF Len(prev) > 1 THEN <<prev[1]>> ELSE prev

goBack(prev) ==
    IF Len(prev) > 1 THEN SubSeq(prev, 1, Len(prev) - 1) ELSE prev

\* Variant: the frame kept is the last one, not the first.
popToTopKeepsLast(prev) ==
    IF Len(prev) # 0 THEN <<prev[Len(prev)]>> ELSE prev

popToTop(prev) ==
    IF Len(prev) # 0 THEN <<prev[1]>> ELSE prev

current(s) ==
    s[Len(s)]

\* App.renderScreen: the screen mounted for a stack.  An empty stack has no
\* current route and mounts nothing.
Mounted(s) ==
    IF Len(s) = 0 THEN "none"
    ELSE IF current(s).name \in {"Home", "Chef", "GuestFilter", "SelectedCourse", "Payment"}
         THEN current(s).name
         ELSE "Unknown"

\* The item a SelectedCourse or Payment screen shows: route.params.item.  <<>>
\* when there is none, and the screen renders its placeholder.
RouteItem(s) ==
    current(s).params

\* Variant: SelectedCourse and Payment read their item without testing it.
renderScreenUnguarded(s) ==
    LET nm == current(s).name
    IN  IF nm = "Home" THEN "HomeScreen"
        ELSE IF nm = "Chef" THEN "ChefScreen"
        ELSE IF nm = "GuestFilter" THEN "GuestFilterScreen"
        ELSE IF nm = "SelectedCourse"
             THEN IF RouteItem(s) = <<>> THEN "TypeError" ELSE "SelectedCourseScreen"
        ELSE IF nm = "Payment"
             THEN IF RouteItem(s) = <<>> THEN "TypeError" ELSE "PaymentScreen"
        ELSE "Unknown screen"

\* What App.renderScreen puts on display for the current route: one of the
\* five screens, or the text of a placeholder.
renderScreen(s) ==
    LET nm == current(s).name
    IN  IF nm = "Home" THEN "HomeScreen"
        ELSE IF nm = "Chef" THEN "ChefScreen"
        ELSE IF nm = "GuestFilter" THEN "GuestFilterScreen"
        ELSE IF nm = "SelectedCourse"
             THEN IF RouteItem(s) = <<>> THEN "No item selected." ELSE "SelectedCourseScreen"
        ELSE IF nm = "Payment"
             THEN IF RouteItem(s) = <<>>
                  THEN "Error: Missing item for payment."
                  ELSE "PaymentScreen"
        ELSE "Unknown screen"

----------------------------------------------------------------------------
(* App: the two updaters handed to setMenuItems *)

\* Variant: the new item goes to the end.
addItemAtEnd(prev, item) ==
    prev \o <<item>>

addItem(prev, item) ==
    <<item>> \o prev

\* Variant: the filter test is inverted.
removeItemInverted(prev, id) ==
    SelectSeq(prev, LAMBDA i : i.id = id)

removeItem(prev, id) ==
    SelectSeq(prev, LAMBDA i : i.id # id)

----------------------------------------------------------------------------
(* Screen-local state.  A screen's useState values last while the screen   *)
(* stays mounted and start from their defaults when it is mounted again.   *)

NoAlert ==
    [kind |-> "none", id |-> <<>>]

ChefDefaults ==
    /\ name' = <<>>
    /\ course' = COURSES[1]
    /\ addOn' = ADDONS[1]
    /\ price' = <<>>

PaymentDefaults ==
    /\ bankName' = <<>>
    /\ accountNumber' = <<>>

\* setStack(updater): the stack is replaced and the screen for the new top
\* is rendered; local state survives only if the same screen stays mounted.
SetStack(newStack) ==
    /\ stack' = newStack
    /\ IF Mounted(newStack) = Mounted(stack)
       THEN UNCHANGED <<name, course, addOn, price, bankName, accountNumber, filter>>
       ELSE /\ ChefDefaults
            /\ PaymentDefaults
            /\ filter' = "All"

Init ==
    /\ stack = <<InitialRoute>>
    /\ menuItems = SeedItems
    /\ name = <<>>
    /\ course = COURSES[1]
    /\ addOn = ADDONS[1]
    /\ price = <<>>
    /\ bankName = <<>>
    /\ accountNumber = <<>>
    /\ filter = "All"
    /\ alert = NoAlert
    /\ now = Now0
    /\ log = <<Seed2, Seed1>>
    /\ last = [op |-> "init", arg |-> <<>>]

----------------------------------------------------------------------------
(* The navigation object called directly, in any order, with any arguments *)

\* The params a caller may pass: none, or an item of the menu.
ParamInputs ==
    {<<>>} \cup {<<it>> : it \in Range(menuItems)}

CallNavigate(screenName, params) ==
    /\ Len(stack) < MaxDepth
    /\ SetStack(navigate(stack, screenName, params))
    /\ last' = [op |-> "navigate", arg |-> <<screenName, params>>]
    /\ UNCHANGED <<menuItems, alert, now, log>>

CallGoBack ==
    /\ SetStack(goBack(stack))
    /\ last' = [op |-> "goBack", arg |-> <<Len(stack)>>]
    /\ UNCHANGED <<menuItems, alert, now, log>>

CallPopToTop ==
    /\ SetStack(popToTop(stack))
    /\ last' = [op |-> "popToTop", arg |-> <<Len(stack)>>]
    /\ UNCHANGED <<menuItems, alert, now, log>>

NextNav ==
    \/ \E n \in ScreenNames, p \in ParamInputs : CallNavigate(n, p)
    \/ CallGoBack
    \/ CallPopToTop

SpecNav ==
    Init /\ [][NextNav]_vars

----------------------------------------------------------------------------
(* addItem and removeItem called directly, in any order, with any item *)

NewItem(id, nm, c, a, p) ==
    [id |-> id, name |-> nm, course |-> c, addOn |-> a, price |-> p]

\* The items a caller may pass: the seed items again, two fresh dishes, and a
\* third dish whose id repeats the first one's.
ItemInputs ==
    {Seed1, Seed2,
     NewItem(ToString(Now0), <<"P","i","e">>, "Dessert", "", Money(3000)),
     NewItem(ToString(MaxNow), <<"T","e","a">>, "Beverage", "Salad", Money(1850)),
     NewItem(ToString(Now0), <<"J","a","m">>, "Starter", "", Money(3000))}

IdInputs ==
    {it.id : it \in ItemInputs}

Ids(items) ==
    {items[i].id : i \in 1..Len(items)}

CallAddItem(item) ==
    /\ Len(log) < Len(SeedItems) + MaxAdds
    /\ menuItems' = addItem(menuItems, item)
    /\ log' = Append(log, item)
    /\ last' = [op |-> "addItem", arg |-> <<item>>]
    /\ UNCHANGED <<stack, name, course, addOn, price, bankName, accountNumber,
                   filter, alert, now>>

CallRemoveItem(id) ==
    /\ menuItems' = removeItem(menuItems, id)
    /\ last' = [op |-> "removeItem", arg |-> <<id>>]
    /\ UNCHANGED <<stack, name, course, addOn, price, bankName, accountNumber,
                   filter, alert, now, log>>

NextStore ==
    \/ \E it \in ItemInputs : CallAddItem(it)
    \/ \E id \in IdInputs : CallRemoveItem(id)

SpecStore ==
    Init /\ [][NextStore]_vars

----------------------------------------------------------------------------
(* The screens.  A button is pressed only on the mounted screen and only   *)
(* while no alert is on display: Alert.alert is modal.                     *)

Pizza ==
    <<" ","P","i","z","z","a"," ">>

\* What the user types or picks.
NameInputs ==
    {Pizza}

PriceInputs ==
    {<<"9","9",".","9","9","9">>}

CourseInputs ==
    {"Dessert"}

AddOnInputs ==
    {"None"}

BankInputs ==
    {<<"F","N","B">>}

AccountInputs ==
    {<<"1","2","3">>}

FilterInputs ==
    {"All", "Main", "Dessert"}

\* Variant: an alert on display does not keep the screen from being pressed.
OnScreenBehindAlert(screen) ==
    Mounted(stack) = screen

OnScreen(screen) ==
    /\ alert.kind = "none"
    /\ Mounted(stack) = screen

\* The handler that ran.  The setters and the navigation buttons are
\* recorded as "press".
Handled(op) ==
    last' = [op |-> op, arg |-> <<>>]

Pressed ==
    Handled("press")

filterByCourse(items, f) ==
    IF f = "All" THEN items ELSE SelectSeq(items, LAMBDA it : it.course = f)

\* list.reduce((s, i) => s + i.price, 0), in cents.  A stored price is a
\* finite amount or, after a price text "Infinity", an infinity.
RECURSIVE SumPrices(_)
SumPrices(list) ==
    IF list = <<>> THEN Money(0)
    ELSE LET rest == SumPrices(Tail(list))
         IN  IF Head(list).price.kind = "Fin" /\ rest.kind = "Fin"
             THEN Money(Head(list).price.cents + rest.cents)
             ELSE [kind |-> "Inf", neg |-> FALSE, cents |-> 0]

\* Variant: the sum is divided by the count without testing it; 0 / 0 is NaN.
AverageOfUnguarded(list) ==
    LET sum == SumPrices(list)
    IN  IF Len(list) = 0 THEN [kind |-> "NaN", neg |-> FALSE, cents |-> 0]
        ELSE IF sum.kind = "Fin"
             THEN Money((2 * sum.cents + Len(list)) \div (2 * Len(list)))
             ELSE sum

\* parseFloat(average.toFixed(2)) with average = count > 0 ? sum / count : 0.
AverageOf(list) ==
    LET sum == SumPrices(list)
    IN  IF Len(list) > 0
        THEN IF sum.kind = "Fin"
             THEN Money((2 * sum.cents + Len(list)) \div (2 * Len(list)))
             ELSE sum
        ELSE Money(0)

\* HomeScreen.computeAverages: one entry per course of COURSES, in that order.
computeAverages(items) ==
    [k \in 1..Len(COURSES) |->
        LET list == SelectSeq(items, LAMBDA it : it.course = COURSES[k])
        IN  [course |-> COURSES[k], average |-> AverageOf(list), count |-> Len(list)]]

StoreUnchanged ==
    UNCHANGED <<menuItems, now, log>>

ChefFormUnchanged ==
    UNCHANGED <<name, course, addOn, price>>

PaymentFormUnchanged ==
    UNCHANGED <<bankName, accountNumber>>

\* navigation.navigate(screenName, params) from a screen.
Navigate(screenName, params) ==
    /\ Len(stack) < MaxDepth + 2
    /\ SetStack(navigate(stack, screenName, params))
    /\ UNCHANGED alert
    /\ StoreUnchanged

\* --- HomeScreen ---

HomeSetFilter(o) ==
    /\ OnScreen("Home")
    /\ filter' = o
    /\ Pressed
    /\ UNCHANGED <<stack, alert>>
    /\ StoreUnchanged /\ ChefFormUnchanged /\ PaymentFormUnchanged

HomeSelect(it) ==
    /\ OnScreen("Home")
    /\ it \in Range(filterByCourse(menuItems, filter))
    /\ Navigate("SelectedCourse", <<it>>)
    /\ Pressed

HomePressChef ==
    /\ OnScreen("Home")
    /\ Navigate("Chef", <<>>)
    /\ Pressed

HomePressGuest ==
    /\ OnScreen("Home")
    /\ Navigate("GuestFilter", <<>>)
    /\ Pressed

\* --- ChefScreen ---

ChefSetName(t) ==
    /\ OnScreen("Chef")
    /\ name' = t
    /\ Pressed
    /\ UNCHANGED <<stack, alert, course, addOn, price, filter>>
    /\ StoreUnchanged /\ PaymentFormUnchanged

ChefSetPrice(t) ==
    /\ OnScreen("Chef")
    /\ price' = t
    /\ Pressed
    /\ UNCHANGED <<stack, alert, name, course, addOn, filter>>
    /\ StoreUnchanged /\ PaymentFormUnchanged

ChefSetCourse(c) ==
    /\ OnScreen("Chef")
    /\ course' = c
    /\ Pressed
    /\ UNCHANGED <<stack, alert, name, addOn, price, filter>>
    /\ StoreUnchanged /\ PaymentFormUnchanged

ChefSetAddOn(a) ==
    /\ OnScreen("Chef")
    /\ addOn' = a
    /\ Pressed
    /\ UNCHANGED <<stack, alert, name, course, price, filter>>
    /\ StoreUnchanged /\ PaymentFormUnchanged

\* The two validation tests of onAdd.
ChefRejects(nm, pr) ==
    \/ Trim(nm) = <<>>
    \/ Trim(pr) = <<>>
    \/ IsNaN(parseFloat(pr))
    \/ LessThanZero(parseFloat(pr))

\* Variant: the add-on is stored as picked.
BuildItemRawAddOn(t, nm, c, a, pr) ==
    [id |-> ToString(t),
     name |-> Trim(nm),
     course |-> c,
     addOn |-> a,
     price |-> ToFixed2(parseFloat(pr))]

\* The item onAdd builds, given the reading of Date.now().
BuildItem(t, nm, c, a, pr) ==
    [id |-> ToString(t),
     name |-> Trim(nm),
     course |-> c,
     addOn |-> IF a = "None" THEN "" ELSE a,
     price |-> ToFixed2(parseFloat(pr))]

onAdd ==
    /\ OnScreen("Chef")
    /\ Handled("onAdd")
    /\ IF ChefRejects(name, price)
       THEN /\ alert' = [kind |-> "validation", id |-> <<>>]
            /\ ChefFormUnchanged
            /\ UNCHANGED <<stack, filter>>
            /\ StoreUnchanged /\ PaymentFormUnchanged
       ELSE /\ Len(menuItems) < MaxItems
            /\ \E t \in now..MaxNow :
                 /\ now' = t
                 /\ menuItems' = addItem(menuItems, BuildItem(t, name, course, addOn, price))
            /\ UNCHANGED log
            /\ ChefDefaults
            /\ alert' = [kind |-> "success", id |-> <<>>]
            /\ UNCHANGED <<stack, filter>>
            /\ PaymentFormUnchanged

ChefClear ==
    /\ OnScreen("Chef")
    /\ ChefDefaults
    /\ Pressed
    /\ UNCHANGED <<stack, alert, filter>>
    /\ StoreUnchanged /\ PaymentFormUnchanged

ChefSelect(it) ==
    /\ OnScreen("Chef")
    /\ it \in Range(menuItems)
    /\ Navigate("SelectedCourse", <<it>>)
    /\ Pressed

confirmRemove(it) ==
    /\ OnScreen("Chef")
    /\ it \in Range(menuItems)
    /\ alert' = [kind |-> "remove", id |-> it.id]
    /\ Pressed
    /\ UNCHANGED <<stack, filter>>
    /\ StoreUnchanged /\ ChefFormUnchanged /\ PaymentFormUnchanged

\* --- GuestFilterScreen ---

GuestSetFilter(o) ==
    /\ OnScreen("GuestFilter")
    /\ filter' = o
    /\ Pressed
    /\ UNCHANGED <<stack, alert>>
    /\ StoreUnchanged /\ ChefFormUnchanged /\ PaymentFormUnchanged

GuestSelect(it) ==
    /\ OnScreen("GuestFilter")
    /\ it \in Range(filterByCourse(menuItems, filter))
    /\ Navigate("SelectedCourse", <<it>>)
    /\ Pressed

\* "Back to Home" on the Chef, GuestFilter and Payment screens.
BackToHome ==
    /\ alert.kind = "none"
    /\ \/ Mounted(stack) \in {"Chef", "GuestFilter"}
       \/ Mounted(stack) = "Payment" /\ RouteItem(stack) # <<>>
    /\ SetStack(popToTop(stack))
    /\ Pressed
    /\ UNCHANGED alert
    /\ StoreUnchanged

\* --- SelectedCourseScreen ---

\* Variant: the item is not handed on to the Payment screen.
onConfirmWithoutItem ==
    /\ OnScreen("SelectedCourse")
    /\ RouteItem(stack) # <<>>
    /\ Navigate("Payment", <<>>)
    /\ Pressed

onConfirm ==
    /\ OnScreen("SelectedCourse")
    /\ RouteItem(stack) # <<>>
    /\ Navigate("Payment", RouteItem(stack))
    /\ Pressed

\* "Cancel" on the SelectedCourse and Payment screens.
Cancel ==
    /\ alert.kind = "none"
    /\ Mounted(stack) \in {"SelectedCourse", "Payment"}
    /\ RouteItem(stack) # <<>>
    /\ SetStack(goBack(stack))
    /\ Pressed
    /\ UNCHANGED alert
    /\ StoreUnchanged

\* --- PaymentScreen ---

PaySetBankName(t) ==
    /\ OnScreen("Payment")
    /\ RouteItem(stack) # <<>>
    /\ bankName' = t
    /\ Pressed
    /\ UNCHANGED <<stack, alert, accountNumber, filter>>
    /\ StoreUnchanged /\ ChefFormUnchanged

PaySetAccountNumber(t) ==
    /\ OnScreen("Payment")
    /\ RouteItem(stack) # <<>>
    /\ accountNumber' = t
    /\ Pressed
    /\ UNCHANGED <<stack, alert, bankName, filter>>
    /\ StoreUnchanged /\ ChefFormUnchanged

PaymentRejects(bank, account) ==
    \/ Trim(bank) = <<>>
    \/ Trim(account) = <<>>

onConfirmPayment ==
    /\ OnScreen("Payment")
    /\ RouteItem(stack) # <<>>
    /\ Handled("onConfirmPayment")
    /\ alert' = IF PaymentRejects(bankName, accountNumber)
                THEN [kind |-> "validation", id |-> <<>>]
                ELSE [kind |-> "paid", id |-> <<>>]
    /\ UNCHANGED <<stack, filter>>
    /\ StoreUnchanged /\ ChefFormUnchanged /\ PaymentFormUnchanged

\* --- The buttons of the alerts ---

\* The OK of a 'Validation' alert, and the Cancel of 'Remove item'.
AlertDismiss ==
    /\ alert.kind \in {"validation", "remove"}
    /\ alert' = NoAlert
    /\ Pressed
    /\ UNCHANGED <<stack, filter>>
    /\ StoreUnchanged /\ ChefFormUnchanged /\ PaymentFormUnchanged

\* Variant: a confirmed payment takes the paid dish off the menu.
AlertOkPopToTopSellsOut ==
    /\ alert.kind \in {"success", "paid"}
    /\ alert' = NoAlert
    /\ SetStack(popToTop(stack))
    /\ Handled(IF alert.kind = "success" THEN "successOk" ELSE "paidOk")
    /\ menuItems' = IF alert.kind = "paid"
                    THEN SelectSeq(menuItems, LAMBDA i : <<i>> # RouteItem(stack))
                    ELSE menuItems
    /\ UNCHANGED <<now, log>>

\* The OK of 'Success' (onAdd) and of 'Payment confirmed'.
AlertOkPopToTop ==
    /\ alert.kind \in {"success", "paid"}
    /\ alert' = NoAlert
    /\ SetStack(popToTop(stack))
    /\ Handled(IF alert.kind = "success" THEN "successOk" ELSE "paidOk")
    /\ StoreUnchanged

\* The Remove of 'Remove item'.
AlertRemove ==
    /\ alert.kind = "remove"
    /\ alert' = NoAlert
    /\ menuItems' = removeItem(menuItems, alert.id)
    /\ Pressed
    /\ UNCHANGED <<stack, filter, now, log>>
    /\ ChefFormUnchanged /\ PaymentFormUnchanged

Next ==
    \/ \E o \in FilterInputs : HomeSetFilter(o)
    \/ \E it \in Range(menuItems) : HomeSelect(it)
    \/ HomePressChef
    \/ HomePressGuest
    \/ \E t \in NameInputs : ChefSetName(t)
    \/ \E t \in PriceInputs : ChefSetPrice(t)
    \/ \E c \in CourseInputs : ChefSetCourse(c)
    \/ \E a \in AddOnInputs : ChefSetAddOn(a)
    \/ onAdd
    \/ ChefClear
    \/ \E it \in Range(menuItems) : ChefSelect(it)
    \/ \E it \in Range(menuItems) : confirmRemove(it)
    \/ \E o \in FilterInputs : GuestSetFilter(o)
    \/ \E it \in Range(menuItems) : GuestSelect(it)
    \/ BackToHome
    \/ onConfirm
    \/ Cancel
    \/ \E t \in BankInputs : PaySetBankName(t)
    \/ \E t \in AccountInputs : PaySetAccountNumber(t)
    \/ onConfirmPayment
    \/ AlertDismiss
    \/ AlertOkPopToTop
    \/ AlertRemove

Spec ==
    Init /\ [][Next]_vars

----------------------------------------------------------------------------
(* The two forms submitted with any content: the Chef screen or the        *)
(* Payment screen is open, its fields hold what the user has typed so far, *)
(* and the form is submitted.                                              *)

FormNames ==
    {<<>>, <<" ">>, Pizza}

FormPrices ==
    {<<>>, <<" ">>, <<"a","b","c">>, <<"-","5">>, <<"4","5">>, <<" ","7",".","5"," ">>,
     <<"9","9",".","9","9","9">>, <<"1","2","a","b","c">>,
     <<"I","n","f","i","n","i","t","y">>}

FormBanks ==
    {<<>>, <<" ">>, <<"F","N","B">>}

FormAccounts ==
    {<<>>, <<" ">>, <<"1","2","3">>}

InitForm ==
    /\ menuItems = SeedItems
    /\ filter = "All"
    /\ alert = NoAlert
    /\ now = Now0
    /\ log = <<Seed2, Seed1>>
    /\ last = [op |-> "press", arg |-> <<>>]
    /\ \/ /\ stack = <<InitialRoute, [name |-> "Chef", params |-> <<>>]>>
          /\ name \in FormNames
          /\ price \in FormPrices
          /\ course \in Range(COURSES)
          /\ addOn \in Range(ADDONS)
          /\ bankName = <<>>
          /\ accountNumber = <<>>
       \/ /\ \E it \in Range(SeedItems) :
                stack = <<InitialRoute,
                          [name |-> "SelectedCourse", params |-> <<it>>],
                          [name |-> "Payment", params |-> <<it>>]>>
          /\ name = <<>>
          /\ course = COURSES[1]
          /\ addOn = ADDONS[1]
          /\ price = <<>>
          /\ bankName \in FormBanks
          /\ accountNumber \in FormAccounts

NextForm ==
    \/ onAdd
    \/ onConfirmPayment
    \/ AlertDismiss
    \/ AlertOkPopToTop

SpecForm ==
    InitForm /\ [][NextForm]_vars

----------------------------------------------------------------------------
(* Properties *)

Reverse(s) ==
    [i \in 1..Len(s) |-> s[Len(s) + 1 - i]]

\* a can be obtained from b by deleting elements.
RECURSIVE IsSubSeq(_, _)
IsSubSeq(a, b) ==
    IF a = <<>> THEN TRUE
    ELSE IF b = <<>> THEN FALSE
    ELSE IF Head(a) = Head(b) THEN IsSubSeq(Tail(a), Tail(b))
    ELSE IsSubSeq(a, Tail(b))

IsPrefix(a, b) ==
    Len(a) <= Len(b) /\ \A i \in 1..Len(a) : a[i] = b[i]

\* C1: whatever navigate, goBack and popToTop calls are made, the stack holds
\* at least one frame and its first frame is the root route (Home, no params).
C1_RootPreserved ==
    Len(stack) >= 1 /\ stack[1] = InitialRoute

\* goBack has been called on the one-frame stack and the root is still there.
C1_Witness ==
    last = [op |-> "goBack", arg |-> <<1>>] /\ stack = <<InitialRoute>>

\* C2: no two items of the store share an id.
C2_UniqueIds ==
    \A i, j \in 1..Len(menuItems) : i # j => menuItems[i].id # menuItems[j].id

\* C3: a goBack call removes exactly the last frame when the stack holds more
\* than one frame, keeping the frames below it, and otherwise changes nothing.
C3_GoBack ==
    [][last'.op = "goBack" =>
         IF Len(stack) > 1
         THEN Len(stack') = Len(stack) - 1 /\ IsPrefix(stack', stack)
         ELSE stack' = stack]_vars

\* goBack has been called on a stack of MaxDepth frames.
C3_Witness ==
    last = [op |-> "goBack", arg |-> <<MaxDepth>>] /\ Len(stack) = MaxDepth - 1

\* C4: a popToTop call leaves exactly the former first frame, whatever the
\* depth, and a second popToTop would change nothing.
C4_PopToTop ==
    [][last'.op = "popToTop" =>
         stack' = <<stack[1]>> /\ popToTop(stack') = stack']_vars

\* popToTop has been called on a stack of MaxDepth frames.
C4_Witness ==
    last = [op |-> "popToTop", arg |-> <<MaxDepth>>] /\ stack = <<InitialRoute>>

\* C5: a navigate call adds one frame, the one made of its two arguments, on
\* top of the frames that were there, and that frame is current afterwards.
C5_Navigate ==
    [][last'.op = "navigate" =>
         /\ Len(stack') = Len(stack) + 1
         /\ IsPrefix(stack, stack')
         /\ current(stack') = [name |-> last'.arg[1], params |-> last'.arg[2]]]_vars

\* navigate has been called with the name of the screen that was on top.
C5_Witness ==
    /\ last.op = "navigate"
    /\ Len(stack) = MaxDepth
    /\ stack[MaxDepth].name = stack[MaxDepth - 1].name
    /\ stack[MaxDepth].params # <<>>

\* C6: for the store as it is and any item whose id the store does not hold,
\* addItem followed by removeItem of that id gives the store back, items and
\* order.
C6_RoundTrip ==
    \A it \in ItemInputs :
        it.id \notin Ids(menuItems) =>
            removeItem(addItem(menuItems, it), it.id) = menuItems

\* A fresh item was added to the seed store and removed again, and the store
\* is the seed store.
C6_Witness ==
    /\ last.op = "removeItem"
    /\ Len(log) = Len(SeedItems) + 1
    /\ log[Len(log)].id \notin Ids(SeedItems)
    /\ last.arg = <<log[Len(log)].id>>
    /\ menuItems = SeedItems

\* The price text does not parse as a non-negative finite number.
NoNonNegativeFiniteNumber(pr) ==
    parseFloat(pr).kind # "Fin" \/ LessThanZero(parseFloat(pr))

\* C7: a chef form submitted with a blank name, a blank price or a price that
\* does not parse as a non-negative finite number, and a payment form
\* submitted with a blank bank name or account number, change neither the
\* store nor the stack.
C7_RejectedSubmissionMutatesNothing ==
    [][/\ (/\ last'.op = "onAdd"
           /\ \/ Trim(name) = <<>>
              \/ Trim(price) = <<>>
              \/ NoNonNegativeFiniteNumber(price))
          => (menuItems' = menuItems /\ stack' = stack)
       /\ (/\ last'.op = "onConfirmPayment"
           /\ \/ Trim(bankName) = <<>>
              \/ Trim(accountNumber) = <<>>)
          => (menuItems' = menuItems /\ stack' = stack)]_vars

\* C8: a submission that onAdd accepts puts exactly one item in front of the
\* store, built from the form (name trimmed, add-on "None" stored as ""),
\* and puts the form back to its defaults; and once its 'Success' alert has
\* been answered the stack is the root frame alone.
C8_SuccessfulSubmission ==
    /\ [][(last'.op = "onAdd" /\ alert'.kind = "success") =>
            /\ Len(menuItems') = Len(menuItems) + 1
            /\ Tail(menuItems') = menuItems
            /\ Head(menuItems').name = Trim(name)
            /\ Head(menuItems').course = course
            /\ Head(menuItems').addOn = (IF addOn = "None" THEN "" ELSE addOn)
            /\ name' = <<>>
            /\ price' = <<>>
            /\ course' = "Starter"
            /\ addOn' = "Extra Sauce"]_vars
    /\ [](last.op = "successOk" => stack = <<InitialRoute>>)

\* " Pizza " was submitted with add-on None, and the alert has been answered.
C8_Witness ==
    /\ last.op = "successOk"
    /\ stack = <<InitialRoute>>
    /\ Len(menuItems) = Len(SeedItems) + 1
    /\ menuItems[1].name = <<"P","i","z","z","a">>
    /\ menuItems[1].addOn = ""
    /\ menuItems[1].course = "Dessert"

\* C9: the store changes only in the step of onAdd that calls addItem and in
\* the step of the 'Remove item' alert that calls removeItem, and those two
\* steps leave the stack as it is; every other step (navigation, filters,
\* opening and confirming a dish, confirming a payment) leaves the store as it
\* is.
C9_StoreWriters ==
    [][LET adds    == last'.op = "onAdd" /\ alert'.kind = "success"
           removes == alert.kind = "remove" /\ alert'.kind = "none"
       IN  /\ (adds \/ removes) => stack' = stack
           /\ ~(adds \/ removes) => menuItems' = menuItems]_vars

\* The chef has added a dish, and after that a payment has been confirmed.
C9_Witness ==
    /\ last.op = "paidOk"
    /\ Len(menuItems) = MaxItems
    /\ menuItems[1].id \notin Ids(SeedItems)

\* C10: addItem puts the item in front of the items that were there,
\* removeItem takes out the items of the id and keeps the others in order, and
\* so the store always is what remains of the items ever added, latest first,
\* the seed items last.
C10_StoreOrder ==
    /\ [][/\ last'.op = "addItem" =>
               menuItems' = <<last'.arg[1]>> \o menuItems
          /\ last'.op = "removeItem" =>
               /\ IsSubSeq(menuItems', menuItems)
               /\ last'.arg[1] \notin Ids(menuItems')
               /\ Len(menuItems') =
                    Cardinality({i \in 1..Len(menuItems) : menuItems[i].id # last'.arg[1]})]_vars
    /\ [](IsSubSeq(menuItems, Reverse(log)))

\* Two dishes were added and the first seed item removed.
C10_Witness ==
    /\ last = [op |-> "removeItem", arg |-> <<Seed1.id>>]
    /\ Len(log) = Len(SeedItems) + 2
    /\ menuItems = <<log[4], log[3], Seed2>>
    /\ log[4].id # log[3].id

\* The current route is SelectedCourse or Payment without an item, or names no
\* screen.
NeedsPlaceholder(s) ==
    \/ current(s).name \in {"SelectedCourse", "Payment"} /\ current(s).params = <<>>
    \/ current(s).name \notin {"Home", "Chef", "GuestFilter", "SelectedCourse", "Payment"}

Placeholders ==
    {"No item selected.", "Error: Missing item for payment.", "Unknown screen"}

\* C11: a SelectedCourse or Payment route without an item, and a route with an
\* unknown name, are rendered as a placeholder text and nothing else is; a
\* goBack call made there removes just that frame (so Home, SelectedCourse
\* without item, goBack, is Home again) and a popToTop call made there leaves
\* the root alone.
C11_Placeholders ==
    /\ [](renderScreen(stack) \in Placeholders <=> NeedsPlaceholder(stack))
    /\ [](renderScreen(stack) \in Placeholders \cup
            {"HomeScreen", "ChefScreen", "GuestFilterScreen",
             "SelectedCourseScreen", "PaymentScreen"})
    /\ [][(last'.op = "goBack" /\ NeedsPlaceholder(stack)) =>
            /\ stack' = SubSeq(stack, 1, Len(stack) - 1)
            /\ (stack = <<InitialRoute, [name |-> "SelectedCourse", params |-> <<>>]>>
                  => stack' = <<InitialRoute>>)]_vars
    /\ [][(last'.op = "popToTop" /\ NeedsPlaceholder(stack)) =>
            stack' = <<InitialRoute>>]_vars

\* navigate('SelectedCourse') has been called from Home without an item.
C11_Witness ==
    /\ last = [op |-> "navigate", arg |-> <<"SelectedCourse", <<>>>>]
    /\ stack = <<InitialRoute, [name |-> "SelectedCourse", params |-> <<>>]>>
    /\ renderScreen(stack) = "No item selected."

\* C12: for the items of the store, whatever they are, computeAverages gives
\* four entries, for Starter, Main, Dessert and Beverage in this order, each
\* counting the items of its course; the four counts add up to the number of
\* items, and a course without item has count 0 and average 0.
C12_Averages ==
    LET r == computeAverages(menuItems)
        matching(c) == {i \in 1..Len(menuItems) : menuItems[i].course = c}
    IN  /\ Len(r) = 4
        /\ <<r[1].course, r[2].course, r[3].course, r[4].course>> =
             <<"Starter", "Main", "Dessert", "Beverage">>
        /\ r[1].count + r[2].count + r[3].count + r[4].count = Len(menuItems)
        /\ \A k \in 1..4 :
             /\ r[k].count = Cardinality(matching(r[k].course))
             /\ matching(r[k].course) = {} =>
                  (r[k].count = 0 /\ r[k].average = Money(0))

\* The store holds the two seed items and two added dishes, two of the four
\* being starters (45.00 and 30.00) and none a beverage.
C12_Witness ==
    /\ Len(menuItems) = 4
    /\ computeAverages(menuItems)[1] =
         [course |-> "Starter", average |-> Money(3750), count |-> 2]
    /\ computeAverages(menuItems)[2] =
         [course |-> "Main", average |-> Money(22000), count |-> 1]
    /\ computeAverages(menuItems)[3].count = 1
    /\ computeAverages(menuItems)[4] =
         [course |-> "Beverage", average |-> Money(0), count |-> 0]

\* The pairs (screen below, screen above) the screens' buttons can produce.
Edges ==
    {<<"Home", "Chef">>, <<"Home", "GuestFilter">>,
     <<"Home", "SelectedCourse">>, <<"Chef", "SelectedCourse">>,
     <<"GuestFilter", "SelectedCourse">>, <<"SelectedCourse", "Payment">>}

\* C13: when the stack only changes by the buttons of the screens and of the
\* alerts, each frame lies on the one below it along one of the six edges;
\* SelectedCourse and Payment frames carry an item; a Payment frame lies on a
\* SelectedCourse frame with the same item; no screen name is twice in the
\* stack; and the stack has at most four frames.
C13_StackShape ==
    /\ stack[1] = InitialRoute
    /\ \A i \in 2..Len(stack) : <<stack[i - 1].name, stack[i].name>> \in Edges
    /\ \A i \in 1..Len(stack) :
         /\ stack[i].name \in {"SelectedCourse", "Payment"} => stack[i].params # <<>>
         /\ stack[i].name = "Payment" =>
              /\ i > 1
              /\ stack[i - 1].name = "SelectedCourse"
              /\ stack[i - 1].params = stack[i].params
    /\ \A i, j \in 1..Len(stack) : i # j => stack[i].name # stack[j].name
    /\ Len(stack) <= 4

\* Home, Chef, a dish picked in the chef's list, and its payment: four frames.
C13_Witness ==
    /\ Len(stack) = 4
    /\ <<stack[1].name, stack[2].name, stack[3].name, stack[4].name>> =
         <<"Home", "Chef", "SelectedCourse", "Payment">>
    /\ stack[4].params = stack[3].params
    /\ alert.kind = "paid"

\* C14: alerts being modal, the store changes only while the stack is Home
\* with Chef on top, and so the item held by a frame is always an item of the
\* store.
C14_SnapshotsInStore ==
    /\ [][menuItems' # menuItems =>
            /\ stack = <<InitialRoute, [name |-> "Chef", params |-> <<>>]>>
            /\ stack' = stack]_vars
    /\ [](\A i \in 1..Len(stack) :
            stack[i].params # <<>> => stack[i].params[1] \in Range(menuItems))

\* The chef has removed the first seed item and added a dish, and the dish
\* added is now open from the chef's list.
C14_Witness ==
    /\ Len(stack) = 3
    /\ stack[2].name = "Chef"
    /\ stack[3].name = "SelectedCourse"
    /\ stack[3].params[1].id \notin Ids(SeedItems)
    /\ Seed1 \notin Range(menuItems)
    /\ stack[3].params[1] \in Range(menuItems)

====
